---- MODULE Spec2Model ----
(***************************************************************************)
(* Memory updaters of deep_qa (deep_qa/layers/memory_updaters.py).         *)
(*                                                                         *)
(* One layer instance is tracked at a time.  Every method is an operator   *)
(* returning [self |-> the instance after the call, ret |-> the result],   *)
(* so that a method's effect on the instance is part of its model.         *)
(* Results are tagged records: [kind, val] with kind one of "tensor",      *)
(* "shape", "config", "class", "split", "none", "error".                   *)
(*                                                                         *)
(* The classes derive from keras.layers.Layer and keras.layers.Dense       *)
(* (Keras 1.x, the API that has get_output_shape_for).  The inherited      *)
(* behaviour the methods rely on (Layer.__init__, Layer.get_config,        *)
(* Dense.__init__, Dense.build, Dense.call, Dense.get_config) is modelled  *)
(* at the place where the source invokes or inherits it.                   *)
(***************************************************************************)
EXTENDS Integers, Sequences, FiniteSets, TLC

\* backend: the K backend of the process; layer: the tracked instance;
\* op, arg, ret: the last operation, its input and its result;
\* called: whether call has been invoked on the tracked instance.
VARIABLES backend, layer, op, arg, ret, called

vars == <<backend, layer, op, arg, ret, called>>

\* Largest encoding_dim explored.
MaxDim == 2
\* Largest batch size explored.
MaxBatch == 2

\* encoding_dim values a caller may pass to a constructor.
Dims == {0 - 1, 0} \cup (1..MaxDim)
\* The K backends Keras 1.x runs on.
Backends == {"theano", "tensorflow"}

Min(a, b) == IF a < b THEN a ELSE b
Max(a, b) == IF a > b THEN a ELSE b

RECURSIVE SumTo(_, _)
\* Sum of f[1] .. f[n].
SumTo(f, n) == IF n = 0 THEN 0 ELSE f[n] + SumTo(f, n - 1)

\* ----- results ----------------------------------------------------------
Err(e) == [kind |-> "error", val |-> e]
Tensor(t) == [kind |-> "tensor", val |-> t]
Shape(s) == [kind |-> "shape", val |-> s]
Config(c) == [kind |-> "config", val |-> c]
NoResult == [kind |-> "none", val |-> "None"]

\* ----- tensors (batch x width matrices, a sequence of rows) --------------
Width(x) == Len(x[1])
ShapeOf(x) == <<Len(x), Width(x)>>

\* The rows explored, per width w: the unit rows (the operations are
\* slices, sums and affine maps, which the unit rows tell apart column by
\* column), the zero row, the all-ones row and the row 1, 2, .., w.
UnitRow(w, k) == [j \in 1..w |-> IF j = k THEN 1 ELSE 0]
ConstRow(w, v) == [j \in 1..w |-> v]
CountRow(w) == [j \in 1..w |-> j]
Rows(w) == {UnitRow(w, k) : k \in 1..w} \cup {ConstRow(w, 0), ConstRow(w, 1), CountRow(w)}

\* A batch of n rows whose first row is r; row i is r shifted by i - 1, so
\* the rows of a batch differ.
Batch(r, n) == [i \in 1..n |-> [j \in 1..Len(r) |-> r[j] + i - 1]]

\* The example input of the documentation: question [1,2], memory [3,4],
\* knowledge [5,6].
ExampleInput == Batch(CountRow(6), 1)

\* Batch sizes explored: one row, and the largest batch.
BatchSizes == {1, MaxBatch}

\* Input tensors: rows of width 3d for d in 1..MaxDim, in batches of one of
\* the sizes above.
Tensors == {Batch(r, n) : r \in UNION {Rows(3 * d) : d \in 1..MaxDim}, n \in BatchSizes}

\* ----- Python slicing ----------------------------------------------------
\* A slice bound i on a sequence of length n: negative bounds count from
\* the end, and bounds are clamped to 0..n.
PyBound(i, n) == IF i < 0 THEN Max(i + n, 0) ELSE Min(i, n)

\* row[lo:hi]
PySlice(row, lo, hi) ==
    LET a == PyBound(lo, Len(row))
        b == PyBound(hi, Len(row))
    IN  IF a < b THEN SubSeq(row, a + 1, b) ELSE << >>

\* x[:, lo:hi]
Cols(x, lo, hi) == [i \in 1..Len(x) |-> PySlice(x[i], lo, hi)]
\* x[:, :hi]
ColsTo(x, hi) == [i \in 1..Len(x) |-> PySlice(x[i], 0, hi)]
\* x[:, lo:]
ColsFrom(x, lo) == [i \in 1..Len(x) |-> PySlice(x[i], lo, Len(x[i]))]

\* ----- split_updater_inputs ----------------------------------------------
\* Variant: the knowledge slice starts at encoding_dim instead of 2 * encoding_dim.
split_updater_inputs_wrong_knowledge(x, encoding_dim) ==
    << ColsTo(x, encoding_dim),
       Cols(x, encoding_dim, 2 * encoding_dim),
       ColsFrom(x, encoding_dim) >>

\* split_updater_inputs(x, encoding_dim)
split_updater_inputs(x, encoding_dim) ==
    << ColsTo(x, encoding_dim),
       Cols(x, encoding_dim, 2 * encoding_dim),
       ColsFrom(x, 2 * encoding_dim) >>

\* ----- Python mappings and keyword arguments ---------------------------
\* dict.update: the entries of e replace or extend those of d.
Update(d, e) == [k \in DOMAIN d \cup DOMAIN e |-> IF k \in DOMAIN e THEN e[k] ELSE d[k]]
\* The entries of d whose key is not in keys.
Without(d, keys) == [k \in DOMAIN d \ keys |-> d[k]]
\* d.get(k, default)
Get(d, k, default) == IF k \in DOMAIN d THEN d[k] ELSE default

\* ----- K backend operations ----------------------------------------------
Activations == {"linear", "relu"}
Activation(name, v) == IF name = "relu" THEN Max(v, 0) ELSE v

\* a + b on two batch x width tensors of the same batch size.  Equal widths
\* add elementwise.  Unequal widths: tensorflow broadcasts a width of 1,
\* theano (no broadcastable column on a slice) fails.
Add(be, a, b) ==
    LET wa == Width(a)
        wb == Width(b)
    IN  IF wa = wb
        THEN Tensor([i \in 1..Len(a) |-> [j \in 1..wa |-> a[i][j] + b[i][j]]])
        ELSE IF be = "tensorflow" /\ (wa = 1 \/ wb = 1)
        THEN Tensor([i \in 1..Len(a) |->
                 [j \in 1..(IF wa = 1 THEN wb ELSE wa) |->
                     (IF wa = 1 THEN a[i][1] ELSE a[i][j])
                   + (IF wb = 1 THEN b[i][1] ELSE b[i][j])]])
        ELSE Err("ShapeMismatch")

\* K.dot(x, W) + b followed by the activation; W is a sequence of rows.
Affine(x, W, b, cols, act) ==
    [i \in 1..Len(x) |->
        [j \in 1..cols |->
            Activation(act, SumTo([k \in 1..Len(W) |-> x[i][k] * W[k][j]], Len(W)) + b[j])]]

\* ----- keras.layers.Layer, as the classes use it --------------------------
LayerKwargs == {"name", "trainable", "input_shape", "batch_input_shape",
                "input_dtype", "create_input_layer"}

\* Layer.__init__(**kw): rejects a keyword it does not know.
Layer_init(self, kw) ==
    IF ~(DOMAIN kw \subseteq LayerKwargs)
    THEN [self |-> self, ret |-> Err("AssertionError")]
    ELSE [self |-> Update(self, [name |-> kw.name,
                                 trainable |-> Get(kw, "trainable", TRUE),
                                 built |-> FALSE]),
          ret |-> NoResult]

\* Layer.get_config()
Layer_get_config(self) == [name |-> self.name, trainable |-> self.trainable]

\* ----- keras.layers.Dense, as the classes use it --------------------------
DenseKwargs == {"init", "activation"}

\* Dense.__init__(output_dim, **kw): output_dim is bound positionally, so a
\* keyword of that name is a second value for it (TypeError).
Dense_init(self, output_dim, kw) ==
    IF "output_dim" \in DOMAIN kw
    THEN [self |-> self, ret |-> Err("TypeError")]
    ELSE LET base == Layer_init(self, Without(kw, DenseKwargs))
         IN  IF base.ret.kind = "error" THEN base
             ELSE [self |-> Update(base.self,
                                   [output_dim |-> output_dim,
                                    init |-> Get(kw, "init", "glorot_uniform"),
                                    activation |-> Get(kw, "activation", "linear"),
                                    W |-> << >>,
                                    b |-> << >>]),
                   ret |-> NoResult]

\* The parameter values a Dense layer of shape rows x cols may hold
\* (initialised by build, then set by training or set_weights): an
\* identity-like W with zero bias, and a W whose row k is all k with bias -1.
Params(rows, cols) ==
    { [W |-> [k \in 1..rows |-> [j \in 1..cols |-> IF k = j THEN 1 ELSE 0]],
       b |-> [j \in 1..cols |-> 0]],
      [W |-> [k \in 1..rows |-> [j \in 1..cols |-> k]],
       b |-> [j \in 1..cols |-> 0 - 1]] }

\* Dense.build(input_shape): W has input_shape[1] rows and output_dim columns.
Dense_build(self, input_shape, params) ==
    IF self.output_dim < 0
    THEN [self |-> self, ret |-> Err("ValueError")]
    ELSE [self |-> [self EXCEPT !.built = TRUE, !.W = params.W, !.b = params.b],
          ret |-> NoResult]

\* Dense.call(x): activation(K.dot(x, W) + b)
Dense_call(self, x) ==
    IF ~self.built
    THEN [self |-> self, ret |-> Err("AttributeError")]
    ELSE IF Width(x) # Len(self.W)
    THEN [self |-> self, ret |-> Err("ShapeMismatch")]
    ELSE [self |-> self,
          ret |-> Tensor(Affine(x, self.W, self.b, self.output_dim, self.activation))]

\* Dense.get_config()
Dense_get_config(self) ==
    Update(Layer_get_config(self),
           [output_dim |-> self.output_dim, init |-> self.init,
            activation |-> self.activation])

\* int(n / 3) for n >= 0
IntThird(n) == n \div 3

\* ----- SumMemoryUpdater ---------------------------------------------------
\* SumMemoryUpdater(**kw)
SumMemoryUpdater_init(kw) ==
    IF "encoding_dim" \notin DOMAIN kw
    THEN [self |-> [cls |-> "none"], ret |-> Err("TypeError")]
    ELSE LET name == Get(kw, "name", "sum_memory_updater")
             kwargs == Without(kw, {"encoding_dim", "name"})
             base == Layer_init([cls |-> "SumMemoryUpdater"], Update(kwargs, [name |-> name]))
         IN  IF base.ret.kind = "error" THEN base
             ELSE [self |-> Update(base.self,
                                   [encoding_dim |-> kw.encoding_dim, mode |-> "sum"]),
                   ret |-> NoResult]

\* Variant: adds the question slice instead of the memory slice.
SumMemoryUpdater_call_adds_question(be, self, x) ==
    LET parts == split_updater_inputs(x, self.encoding_dim)
    IN  [self |-> self, ret |-> Add(be, parts[1], parts[3])]

\* Variant: call re-derives encoding_dim from its input and stores it.
SumMemoryUpdater_call_keeps_state(be, self, x) ==
    LET parts == split_updater_inputs(x, self.encoding_dim)
    IN  [self |-> [self EXCEPT !.encoding_dim = IntThird(Width(x) + 3)],
         ret |-> Add(be, parts[2], parts[3])]

\* SumMemoryUpdater.call(x)
SumMemoryUpdater_call(be, self, x) ==
    LET parts == split_updater_inputs(x, self.encoding_dim)
    IN  [self |-> self, ret |-> Add(be, parts[2], parts[3])]

SumMemoryUpdater_get_output_shape_for(self, input_shape) ==
    [self |-> self, ret |-> Shape(<<input_shape[1], IntThird(input_shape[2])>>)]

SumMemoryUpdater_get_config(self) ==
    [self |-> self,
     ret |-> Config(Update([encoding_dim |-> self.encoding_dim], Layer_get_config(self)))]

\* ----- DenseConcatNoQuestionMemoryUpdater ---------------------------------
DenseConcatNoQuestionMemoryUpdater_init(kw) ==
    IF "encoding_dim" \notin DOMAIN kw
    THEN [self |-> [cls |-> "none"], ret |-> Err("TypeError")]
    ELSE LET name == Get(kw, "name", "dense_concat_memory_updater")
             kwargs == Without(kw, {"encoding_dim", "name"})
         IN  Dense_init([cls |-> "DenseConcatNoQuestionMemoryUpdater",
                         encoding_dim |-> kw.encoding_dim],
                        kw.encoding_dim, Update(kwargs, [name |-> name]))

\* Variant: the question slice is not removed.
DenseConcatNoQuestionMemoryUpdater_call_keeps_question(self, x) ==
    Dense_call(self, x)

\* Variant: the last slice is removed instead of the first.
DenseConcatNoQuestionMemoryUpdater_call_drops_knowledge(self, x) ==
    Dense_call(self, ColsTo(x, 2 * self.encoding_dim))

\* DenseConcatNoQuestionMemoryUpdater.call(x): x[:, encoding_dim:] through Dense.call
DenseConcatNoQuestionMemoryUpdater_call(self, x) ==
    Dense_call(self, ColsFrom(x, self.encoding_dim))

DenseConcatNoQuestionMemoryUpdater_get_output_shape_for(self, input_shape) ==
    [self |-> self, ret |-> Shape(<<input_shape[1], IntThird(input_shape[2])>>)]

DenseConcatNoQuestionMemoryUpdater_get_config(self) ==
    [self |-> self,
     ret |-> Config(Update([encoding_dim |-> self.output_dim], Dense_get_config(self)))]

\* ----- DenseConcatMemoryUpdater -------------------------------------------
DenseConcatMemoryUpdater_init(kw) ==
    IF "encoding_dim" \notin DOMAIN kw
    THEN [self |-> [cls |-> "none"], ret |-> Err("TypeError")]
    ELSE LET name == Get(kw, "name", "dense_concat_memory_updater")
             kwargs == Without(kw, {"encoding_dim", "name"})
         IN  Dense_init([cls |-> "DenseConcatMemoryUpdater",
                         encoding_dim |-> kw.encoding_dim],
                        kw.encoding_dim, Update(kwargs, [name |-> name]))

\* call is inherited from Dense.
DenseConcatMemoryUpdater_call(self, x) == Dense_call(self, x)

DenseConcatMemoryUpdater_get_output_shape_for(self, input_shape) ==
    [self |-> self, ret |-> Shape(<<input_shape[1], IntThird(input_shape[2])>>)]

\* get_config is inherited from Dense.
DenseConcatMemoryUpdater_get_config(self) ==
    [self |-> self, ret |-> Config(Dense_get_config(self))]

\* ----- the updaters registry -----------------------------------------------
\* OrderedDict.__setitem__: a new key is appended, a known key keeps its place.
OrderedDict_set(d, k, v) ==
    IF \E i \in 1..Len(d) : d[i][1] = k
    THEN [i \in 1..Len(d) |-> IF d[i][1] = k THEN <<k, v>> ELSE d[i]]
    ELSE Append(d, <<k, v>>)

\* Variant: a missing key yields the first registered class.
OrderedDict_get_with_default(d, k) ==
    IF \E i \in 1..Len(d) : d[i][1] = k
    THEN [kind |-> "class", val |-> d[CHOOSE i \in 1..Len(d) : d[i][1] = k][2]]
    ELSE [kind |-> "class", val |-> d[1][2]]

\* OrderedDict.__getitem__: KeyError for a missing key.
OrderedDict_get(d, k) ==
    IF \E i \in 1..Len(d) : d[i][1] = k
    THEN [kind |-> "class", val |-> d[CHOOSE i \in 1..Len(d) : d[i][1] = k][2]]
    ELSE Err("KeyError")

\* Keys in iteration order.
OrderedDict_keys(d) == [i \in 1..Len(d) |-> d[i][1]]

updaters ==
    OrderedDict_set(
        OrderedDict_set(
            OrderedDict_set(<< >>, "dense_concat", "DenseConcatMemoryUpdater"),
            "sum", "SumMemoryUpdater"),
        "dense_concat_no_question", "DenseConcatNoQuestionMemoryUpdater")

\* Strings a caller may look up: the registered keys and some others.
LookupKeys == {"dense_concat", "sum", "dense_concat_no_question",
               "", "SUM", "concat", "DenseConcatMemoryUpdater"}

\* ----- dispatch on the class of the instance ------------------------------
New(cls, kw) ==
    CASE cls = "SumMemoryUpdater" -> SumMemoryUpdater_init(kw)
      [] cls = "DenseConcatNoQuestionMemoryUpdater" -> DenseConcatNoQuestionMemoryUpdater_init(kw)
      [] cls = "DenseConcatMemoryUpdater" -> DenseConcatMemoryUpdater_init(kw)

IsDense(self) == self.cls \in {"DenseConcatNoQuestionMemoryUpdater", "DenseConcatMemoryUpdater"}

\* build is inherited: Dense.build for the Dense subclasses, Layer.build
\* (which only marks the layer built) for SumMemoryUpdater.
BuildOf(self, input_shape, params) ==
    IF IsDense(self)
    THEN Dense_build(self, input_shape, params)
    ELSE [self |-> [self EXCEPT !.built = TRUE], ret |-> NoResult]

CallOf(be, self, x) ==
    CASE self.cls = "SumMemoryUpdater" -> SumMemoryUpdater_call(be, self, x)
      [] self.cls = "DenseConcatNoQuestionMemoryUpdater" ->
            DenseConcatNoQuestionMemoryUpdater_call(self, x)
      [] self.cls = "DenseConcatMemoryUpdater" -> DenseConcatMemoryUpdater_call(self, x)

GetOutputShapeForOf(self, input_shape) ==
    CASE self.cls = "SumMemoryUpdater" -> SumMemoryUpdater_get_output_shape_for(self, input_shape)
      [] self.cls = "DenseConcatNoQuestionMemoryUpdater" ->
            DenseConcatNoQuestionMemoryUpdater_get_output_shape_for(self, input_shape)
      [] self.cls = "DenseConcatMemoryUpdater" ->
            DenseConcatMemoryUpdater_get_output_shape_for(self, input_shape)

GetConfigOf(self) ==
    CASE self.cls = "SumMemoryUpdater" -> SumMemoryUpdater_get_config(self)
      [] self.cls = "DenseConcatNoQuestionMemoryUpdater" ->
            DenseConcatNoQuestionMemoryUpdater_get_config(self)
      [] self.cls = "DenseConcatMemoryUpdater" -> DenseConcatMemoryUpdater_get_config(self)

\* Layer.from_config(config): cls(**config)
FromConfigOf(cls, config) == New(cls, config)

\* Input shapes (batch, width) given to get_output_shape_for: widths 3d, and
\* the mismatching widths 2d and 3d + 1.
ShapeWidths == UNION {{2 * d, 3 * d, 3 * d + 1} : d \in 1..MaxDim}
Shapes == {<<n, w>> : n \in BatchSizes, w \in ShapeWidths}

\* Input shapes given to build: the widths 3d of the input tensors (what the
\* framework passes when the layer is applied to one), and the widths 2d.
BuildShapes == {<<n, w>> \in Shapes : \E d \in 1..MaxDim : w \in {2 * d, 3 * d}}

\* ----- the state machine ---------------------------------------------------
NoLayer == [cls |-> "none"]

Init ==
    /\ backend \in Backends
    /\ layer = NoLayer
    /\ op = "init"
    /\ arg = "None"
    /\ ret = NoResult
    /\ called = FALSE

\* updaters[key]
Lookup ==
    \E key \in LookupKeys :
        /\ op' = "lookup"
        /\ arg' = key
        /\ ret' = OrderedDict_get(updaters, key)
        /\ UNCHANGED <<backend, layer, called>>

\* updaters[key](encoding_dim=d) or updaters[key](encoding_dim=d, activation=act).
\* One instance is tracked: constructing a second one would start the same
\* state machine over.
Construct ==
    /\ layer = NoLayer
    /\ \E key \in {"dense_concat", "sum", "dense_concat_no_question"},
       d \in Dims, act \in Activations \cup {"default"} :
        LET cls == OrderedDict_get(updaters, key).val
            kw == IF act = "default" THEN [encoding_dim |-> d]
                  ELSE [encoding_dim |-> d, activation |-> act]
            new == New(cls, kw)
        IN  /\ op' = "construct"
            /\ arg' = [cls |-> cls, kw |-> kw]
            /\ layer' = IF new.ret.kind = "error" THEN layer ELSE new.self
            /\ ret' = new.ret
            /\ UNCHANGED <<backend, called>>

\* layer.build(input_shape)
Build ==
    /\ layer.cls # "none"
    /\ ~layer.built
    /\ \E input_shape \in BuildShapes :
        \E params \in Params(input_shape[2], IF IsDense(layer) THEN layer.output_dim ELSE 0) :
            LET r == BuildOf(layer, input_shape, params)
            IN  /\ op' = "build"
                /\ arg' = input_shape
                /\ layer' = r.self
                /\ ret' = r.ret
                /\ UNCHANGED <<backend, called>>

\* layer.call(x)
Call ==
    /\ layer.cls # "none"
    /\ \E x \in Tensors :
        LET r == CallOf(backend, layer, x)
        IN  /\ op' = "call"
            /\ arg' = x
            /\ layer' = r.self
            /\ ret' = r.ret
            /\ called' = TRUE
            /\ UNCHANGED backend

\* layer.get_output_shape_for(input_shape)
GetOutputShapeFor ==
    /\ layer.cls # "none"
    /\ \E input_shape \in Shapes :
        LET r == GetOutputShapeForOf(layer, input_shape)
        IN  /\ op' = "get_output_shape_for"
            /\ arg' = input_shape
            /\ layer' = r.self
            /\ ret' = r.ret
            /\ UNCHANGED <<backend, called>>

\* layer.get_config()
GetConfig ==
    /\ layer.cls # "none"
    /\ LET r == GetConfigOf(layer)
       IN  /\ op' = "get_config"
           /\ arg' = "None"
           /\ layer' = r.self
           /\ ret' = r.ret
           /\ UNCHANGED <<backend, called>>

\* type(layer).from_config(config) on the mapping get_config just returned;
\* on success the reconstructed instance replaces the tracked one and its
\* get_config is the result.
FromConfig ==
    /\ layer.cls # "none"
    /\ op = "get_config"
    /\ ret.kind = "config"
    /\ LET new == FromConfigOf(layer.cls, ret.val)
       IN  /\ op' = "from_config"
           /\ arg' = ret.val
           /\ layer' = IF new.ret.kind = "error" THEN layer ELSE new.self
           /\ ret' = IF new.ret.kind = "error" THEN new.ret ELSE GetConfigOf(new.self).ret
           /\ called' = IF new.ret.kind = "error" THEN called ELSE FALSE
           /\ UNCHANGED backend

\* split_updater_inputs(x, d)
Split ==
    \E x \in Tensors, d \in Dims :
        /\ op' = "split"
        /\ arg' = [x |-> x, encoding_dim |-> d]
        /\ ret' = [kind |-> "split", val |-> split_updater_inputs(x, d)]
        /\ UNCHANGED <<backend, layer, called>>

Next ==
    \/ Lookup
    \/ Construct
    \/ Build
    \/ Call
    \/ GetOutputShapeFor
    \/ GetConfig
    \/ FromConfig

Spec == Init /\ [][Next]_vars

\* The splitter alone, on every input and every encoding_dim.
SpecSplit == Init /\ [][Split]_vars

\* ----- properties ------------------------------------------------------------
D == layer.encoding_dim
IsInstance(cls) == layer.cls = cls
\* The last operation was call on an instance with encoding_dim > 0 and an
\* input of width 3 * encoding_dim.
CalledOn3D(cls) ==
    /\ op = "call"
    /\ IsInstance(cls)
    /\ D > 0
    /\ Width(arg) = 3 * D

\* C1: for every encoding_dim D > 0 and every batch of rows of width 3D,
\* SumMemoryUpdater.call returns, for every row and every column j in
\* [0, D), input[row][D + j] + input[row][2D + j]; the question columns do
\* not contribute.
C1_SumIsMemoryPlusKnowledge ==
    CalledOn3D("SumMemoryUpdater") =>
        /\ ret.kind = "tensor"
        /\ Len(ret.val) = Len(arg)
        /\ \A i \in 1..Len(arg) :
            /\ Len(ret.val[i]) = D
            /\ \A j \in 1..D : ret.val[i][j] = arg[i][D + j] + arg[i][2 * D + j]

\* Reached: the sum updater with encoding_dim 2 maps [1,2,3,4,5,6] to [8,10].
C1_Witness ==
    /\ CalledOn3D("SumMemoryUpdater")
    /\ D = 2
    /\ arg = ExampleInput
    /\ ret = Tensor(<< <<8, 10>> >>)

\* C2: for every D > 0, every batch size and each of the three updaters
\* built with encoding_dim D, get_output_shape_for of (batch, 3D) is
\* (batch, D), and it is the shape of the output call computes on an input
\* of that shape (for a Dense subclass: once built for that input shape).
C2_ShapeInferenceMatchesCall ==
    /\ (op = "get_output_shape_for" /\ D > 0 /\ arg[2] = 3 * D)
          => ret = Shape(<<arg[1], D>>)
    /\ (/\ op = "call"
        /\ D > 0
        /\ Width(arg) = 3 * D
        /\ IsDense(layer) => (layer.built /\ Len(layer.W) = 3 * D))
          => /\ ret.kind = "tensor"
             /\ ShapeOf(ret.val) = GetOutputShapeForOf(layer, ShapeOf(arg)).ret.val

\* C3: for each of the three classes (encoding_dim > 0), reconstructing an updater from the
\* mapping get_config returned succeeds, and the reconstructed updater's
\* get_config equals that mapping, encoding_dim included.
C3_ConfigRoundTrip ==
    (op = "from_config" /\ D > 0) =>
        /\ ret.kind = "config"
        /\ "encoding_dim" \in DOMAIN arg
        /\ ret.val = arg
        /\ ret.val.encoding_dim = D

\* The inputs that agree with x outside the question columns [0, d).
SameButQuestion(x, d) ==
    {y \in Tensors : Len(y) = Len(x) /\ Width(y) = Width(x) /\ ColsFrom(y, d) = ColsFrom(x, d)}

\* C4: the output of DenseConcatNoQuestionMemoryUpdater.call does not depend
\* on the question columns: for D > 0 and fixed weights, bias and activation,
\* inputs of width 3D that differ only in columns [0, D) give the same output.
C4_NoQuestionDependence ==
    CalledOn3D("DenseConcatNoQuestionMemoryUpdater") =>
        \A y \in SameButQuestion(arg, D) :
            DenseConcatNoQuestionMemoryUpdater_call(layer, y).ret = ret

\* Reached: call returned a tensor and some other input differs from this
\* one in the question columns only.
C4_Witness ==
    /\ CalledOn3D("DenseConcatNoQuestionMemoryUpdater")
    /\ ret.kind = "tensor"
    /\ \E y \in SameButQuestion(arg, D) : y # arg

\* C5: the registry maps exactly dense_concat, sum, dense_concat_no_question,
\* in that order, to DenseConcatMemoryUpdater, SumMemoryUpdater and
\* DenseConcatNoQuestionMemoryUpdater; looking up any other string fails
\* with a key-not-found error and returns no constructor.
C5_Registry ==
    /\ OrderedDict_keys(updaters) = <<"dense_concat", "sum", "dense_concat_no_question">>
    /\ op = "lookup" =>
          CASE arg = "dense_concat" ->
                   ret = [kind |-> "class", val |-> "DenseConcatMemoryUpdater"]
            [] arg = "sum" ->
                   ret = [kind |-> "class", val |-> "SumMemoryUpdater"]
            [] arg = "dense_concat_no_question" ->
                   ret = [kind |-> "class", val |-> "DenseConcatNoQuestionMemoryUpdater"]
            [] OTHER -> ret = Err("KeyError")

\* Reached: a lookup of an unregistered string failed.
C5_Witness ==
    /\ op = "lookup"
    /\ arg = "concat"
    /\ ret.kind = "error"

\* C6: no updater instance with encoding_dim <= 0 exists: construction with
\* a non-positive encoding_dim is rejected.
C6_NoNonPositiveDim ==
    layer.cls # "none" => D > 0

\* C7: for an updater built with encoding_dim D > 0, an input shape whose
\* width is not 3D is reported as an error by get_output_shape_for; no output
\* shape is returned for it.
C7_ShapeMismatchReported ==
    (op = "get_output_shape_for" /\ D > 0 /\ arg[2] # 3 * D) => ret.kind = "error"

\* C8: for every D > 0 and every input of width 3D, split_updater_inputs
\* returns three parts of width D, equal to columns [0, D), [D, 2D) and
\* [2D, 3D) in that order; put side by side they are the input, every
\* column exactly once.
C8_SplitPartitions ==
    (op = "split" /\ arg.encoding_dim > 0 /\ Width(arg.x) = 3 * arg.encoding_dim) =>
        LET d == arg.encoding_dim
            x == arg.x
            parts == ret.val
        IN  /\ Len(parts) = 3
            /\ \A p \in 1..3 :
                /\ Len(parts[p]) = Len(x)
                /\ \A i \in 1..Len(x) :
                    /\ Len(parts[p][i]) = d
                    /\ \A j \in 1..d : parts[p][i][j] = x[i][(p - 1) * d + j]
            /\ \A i \in 1..Len(x) : parts[1][i] \o parts[2][i] \o parts[3][i] = x[i]

\* Reached: [1,2,3,4,5,6] split with encoding_dim 2 into [1,2], [3,4], [5,6].
C8_Witness ==
    /\ op = "split"
    /\ arg.encoding_dim = 2
    /\ arg.x = ExampleInput
    /\ ret.val = << << <<1, 2>> >>, << <<3, 4>> >>, << <<5, 6>> >> >>

\* The example weights of the documentation.
ExampleW == << <<1, 0>>, <<0, 1>>, <<0, 0>>, <<0, 0>> >>

C10_Stateless ==
    [][(layer.cls # "none" /\ op' \in {"call", "get_output_shape_for", "get_config"}) =>
          /\ layer' = layer
          /\ layer'.encoding_dim = layer.encoding_dim
          /\ GetConfigOf(layer').ret = GetConfigOf(layer).ret
          /\ (op' = "call" => ret' = CallOf(backend, layer, arg').ret)]_vars

\* Reached: get_config on an instance that has been built and called.
C10_Witness ==
    /\ op = "get_config"
    /\ called
    /\ layer.built
    /\ D > 0
====
